---- MODULE Spec2Model ----
(***************************************************************************)
(* Deep-Search: the research pipeline of agents.py (a crew of three agents *)
(* running three tasks in sequence, with the LinkUp search tool), the HTTP *)
(* facade of api.py and the client call of app.py.                         *)
(*                                                                         *)
(* A text is a sequence of string tokens; concatenation of texts is \o.    *)
(* The LLM, the search provider and the transport are external: each call  *)
(* of them is a nondeterministic choice between returning and raising.     *)
(***************************************************************************)
EXTENDS Integers, Sequences, FiniteSets, TLC

\* ------------------------------------------------------------------ bounds
NumRequests == 2        \* request slots (concurrent POST /query calls)
MaxToolCalls == 2       \* tool calls made while one query is processed
MaxDelegations == 1     \* delegations made while one query is processed

Requests == 1..NumRequests
CrewIds == 1..NumRequests

\* The inputs of POST /query: the empty string and two distinct queries.
Queries == { << >>, <<"q1">>, <<"q2">> }

\* Exceptions are records of a class and a message; str(e) is the message.
ExceptionClasses == { "Exception", "RuntimeError", "ValueError" }
NoException == [cls |-> "none", msg |-> << >>]
ConstructionErrors == { [cls |-> "ValueError", msg |-> <<"invalid crew configuration">>] }
LLMErrors ==
    { [cls |-> "RuntimeError", msg |-> <<"LLM call failed">>],
      [cls |-> "Exception", msg |-> << >>] }
ProviderErrors == { [cls |-> "RuntimeError", msg |-> <<"provider unreachable">>] }

Str(e) == e.msg

\* isinstance(e, Exception): every class above derives from Exception.
IsException(e) == e.cls \in ExceptionClasses

BeginsWith(s, p) == Len(s) >= Len(p) /\ SubSeq(s, 1, Len(p)) = p

\* s occurs in t as a contiguous, nonempty piece
Contains(t, s) ==
    /\ Len(s) > 0
    /\ \E i \in 1..Len(t) : i + Len(s) - 1 <= Len(t) /\ SubSeq(t, i, i + Len(s) - 1) = s

\* ------------------------------------------------- agents.py: configuration
WebSearcher == "Web Searcher"
ResearchAnalyst == "Research Analyst"
TechnicalWriter == "Technical Writer"
LinkUpSearch == "LinkUp Search"

\* Crew(agents=[web_searcher, research_analyst, technical_writer], ...)
CrewAgents == <<WebSearcher, ResearchAnalyst, TechnicalWriter>>

Agents == { CrewAgents[i] : i \in 1..Len(CrewAgents) }

\* faulty variant: the Research Analyst is given the search tool too
AgentToolsAnalystSearches(agent) ==
    IF agent \in {WebSearcher, ResearchAnalyst} THEN {LinkUpSearch} ELSE {}

\* Agent(..., tools=[linkup_search_tool]) for the Web Searcher only
AgentTools(agent) == IF agent = WebSearcher THEN {LinkUpSearch} ELSE {}

\* Agent(..., allow_delegation=...)
AllowDelegation(agent) == agent \in {WebSearcher, ResearchAnalyst}

\* faulty variant: the tasks listed out of order
CrewTasksAnalysisFirst == <<"analysis_task", "search_task", "writing_task">>

\* Crew(tasks=[search_task, analysis_task, writing_task], process=Process.sequential)
CrewTasks == <<"search_task", "analysis_task", "writing_task">>

Tasks == { "search_task", "analysis_task", "writing_task" }

\* Task(agent=...)
TaskAgent(task) ==
    CASE task = "search_task" -> WebSearcher
      [] task = "analysis_task" -> ResearchAnalyst
      [] task = "writing_task" -> TechnicalWriter

\* Task(tools=...): only the search task names tools of its own
TaskTools(task) == IF task = "search_task" THEN {LinkUpSearch} ELSE {}

\* Task(context=...) is given for the analysis and the writing task
ContextSpecified(task) == task \in {"analysis_task", "writing_task"}

\* faulty variant: the writing task is also given the search task as context
TaskContextWriterSeesSearch(task) ==
    CASE task = "search_task" -> << >>
      [] task = "analysis_task" -> <<"search_task">>
      [] task = "writing_task" -> <<"search_task", "analysis_task">>

TaskContext(task) ==
    CASE task = "search_task" -> << >>
      [] task = "analysis_task" -> <<"search_task">>
      [] task = "writing_task" -> <<"analysis_task">>

\* the pipeline stage a task stands for
Stage(task) ==
    CASE task = "search_task" -> "SEARCH"
      [] task = "analysis_task" -> "ANALYZE"
      [] task = "writing_task" -> "WRITE"

\* Task(description=...): only the search task interpolates the query
Description(task, q) ==
    CASE task = "search_task" -> <<"Conduct an exhaustive web search about: ">> \o q
      [] task = "analysis_task" -> <<"Analyze the raw search results">>
      [] task = "writing_task" -> <<"Write a well-structured Research Report">>

\* the tools a task runs with: its own, else its agent's
EffectiveTools(task) ==
    IF TaskTools(task) # {} THEN TaskTools(task) ELSE AgentTools(TaskAgent(task))

\* ---------------------------------------------------- external services
\* what the search provider answers, and str(search_response)
SearchResponses == { [kind |-> "LinkupSearchResults", items |-> <<"result">>] }
StrResponse(resp) == <<resp.kind>> \o resp.items

\* The agent's final answer for a task: the LLM is a function of its prompt
\* (role, task description, context handed over, observations made).
LLMAnswer(agent, description, context, observations) ==
    <<agent>> \o description \o context \o observations

\* what requests raises in call_research_api, as far as the code reads it:
\* the message, the "message" of an {"error": {...}} object embedded in it
\* (empty when there is none) and its double-quoted pieces
TransportErrors ==
    { [text |-> <<"Connection refused">>, json |-> << >>, quoted |-> << >>],
      [text |-> <<"Read timed out: ", "\"localhost\"">>, json |-> << >>,
       quoted |-> << <<"localhost">> >>] }
HTTPError(code) ==
    [text |-> <<"500 Server Error: Internal Server Error for url">>,
     json |-> << >>, quoted |-> << >>]

\* --------------------------------------------------------------- state
VARIABLES
    concurrent, \* whether several requests are served at once
    pc,         \* where each request is: idle, run_research, kickoff, task,
                \* except, returned, raised, responded, shown
    query,      \* the request's input
    crewOf,     \* the crew object run_research holds (0: none yet)
    taskIdx,    \* kickoff's position in crew.tasks
    taskOutputs,\* kickoff's local list of the outputs produced so far
    ctx,        \* the context handed to the task now running
    obs,        \* the running agent's observations (tool results, answers)
    toolCalls,  \* tool calls made so far for the request
    delegations,\* delegations made so far for the request
    delegate,   \* the coworker now working on a delegated piece ("none")
    exc,        \* the exception in flight
    ret,        \* run_research's return value
    resp,       \* query_endpoint's HTTP response
    shown,      \* what call_research_api returns to the UI
    crews,      \* the heap of crew objects: query and each task's output
    nextCrew,   \* the next fresh object identity
    started,    \* history: the stages begun, in order
    finished,   \* history: the stages completed, in order
    handed,     \* history: the context handed over at each stage start
    obsLog,     \* history: the observations each completed stage ended with
    failedAt,   \* history: where the run raised ("none", "construct", a stage)
    searchLog,  \* history: calls of LinkUpSearchTool._run
    swallowedBy,\* history: the functions that turned an exception into a string
    statusLog   \* history: the answers of GET /status

runVars == <<query, crewOf, taskIdx, taskOutputs, ctx, obs, toolCalls, delegations, delegate>>
outVars == <<exc, ret, resp, shown>>
heapVars == <<crews, nextCrew>>
histVars == <<started, finished, handed, obsLog, failedAt, searchLog, swallowedBy>>
vars == <<concurrent, pc, runVars, outVars, heapVars, histVars, statusLog>>

NoOutput == [set |-> FALSE, raw |-> << >>]
NoCrew == [built |-> FALSE, query |-> << >>, output |-> [t \in Tasks |-> NoOutput]]
NoResponse == [code |-> 0, key |-> "none", text |-> << >>]

TypeOK ==
    /\ concurrent \in BOOLEAN
    /\ pc \in [Requests -> {"idle", "run_research", "kickoff", "task", "except",
                            "returned", "raised", "responded", "shown"}]
    /\ crewOf \in [Requests -> {0} \cup CrewIds]
    /\ taskIdx \in [Requests -> 0..Len(CrewTasks)]
    /\ toolCalls \in [Requests -> 0..MaxToolCalls]
    /\ delegations \in [Requests -> 0..MaxDelegations]
    /\ delegate \in [Requests -> Agents \cup {"none"}]
    /\ nextCrew \in 1..(NumRequests + 1)

InitCommon ==
    /\ pc = [r \in Requests |-> "idle"]
    /\ query = [r \in Requests |-> << >>]
    /\ crewOf = [r \in Requests |-> 0]
    /\ taskIdx = [r \in Requests |-> 0]
    /\ taskOutputs = [r \in Requests |-> << >>]
    /\ ctx = [r \in Requests |-> << >>]
    /\ obs = [r \in Requests |-> << >>]
    /\ toolCalls = [r \in Requests |-> 0]
    /\ delegations = [r \in Requests |-> 0]
    /\ delegate = [r \in Requests |-> "none"]
    /\ exc = [r \in Requests |-> NoException]
    /\ ret = [r \in Requests |-> << >>]
    /\ resp = [r \in Requests |-> NoResponse]
    /\ shown = [r \in Requests |-> << >>]
    /\ crews = [c \in CrewIds |-> NoCrew]
    /\ nextCrew = 1
    /\ started = [r \in Requests |-> << >>]
    /\ finished = [r \in Requests |-> << >>]
    /\ handed = [r \in Requests |-> << >>]
    /\ obsLog = [r \in Requests |-> << >>]
    /\ failedAt = [r \in Requests |-> "none"]
    /\ searchLog = {}
    /\ swallowedBy = {}
    /\ statusLog = {}

\* one client at a time
Init == concurrent = FALSE /\ InitCommon

\* several clients at once, each served by its own worker
InitConc == concurrent = TRUE /\ InitCommon

\* the request slots in use
Slots == IF concurrent THEN Requests ELSE {1}

\* ------------------------------------------------------ agents.py: helpers
\* a crew as create_research_crew builds it: no task has an output yet
NewCrew(q) == [built |-> TRUE, query |-> q, output |-> [t \in Tasks |-> NoOutput]]

\* faulty variant: one crew object kept and handed to every call
SharedCrewId == CHOOSE c \in CrewIds : \A d \in CrewIds : c <= d

\* the identity of the objects create_research_crew constructs: fresh each call
FreshCrewId == nextCrew

\* the raw outputs of the given task outputs, those not produced yet left out,
\* joined with a divider line
RECURSIVE JoinRaw(_)
JoinRaw(outs) ==
    IF outs = << >> THEN << >>
    ELSE LET rest == JoinRaw(Tail(outs))
         IN  IF ~Head(outs).set THEN rest
             ELSE IF rest = << >> THEN Head(outs).raw
             ELSE Head(outs).raw \o <<"----------">> \o rest

CurTask(r) == CrewTasks[taskIdx[r]]

\* The context a task starts with: the outputs of the tasks its context names,
\* read from those task objects; with no context given, every output so far.
ContextFor(r, task) ==
    IF ContextSpecified(task)
    THEN JoinRaw([i \in 1..Len(TaskContext(task)) |->
                    crews[crewOf[r]].output[TaskContext(task)[i]]])
    ELSE JoinRaw(taskOutputs[r])

\* who is working now, and with which tools: the task's agent with the task's
\* tools, or a coworker doing delegated work with its own tools
ActingAgent(r) == IF delegate[r] # "none" THEN delegate[r] ELSE TaskAgent(CurTask(r))
ActingTools(r) ==
    IF delegate[r] # "none" THEN AgentTools(delegate[r]) ELSE EffectiveTools(CurTask(r))

\* faulty variant: _run without its try/except
ToolCatchesNothing(e) == FALSE

\* LinkUpSearchTool._run: except Exception as e
ToolCatches(e) == IsException(e)

\* f"Error occurred while searching: {str(e)}"
ToolErrorString(e) == <<"Error occurred while searching: ">> \o Str(e)

\* faulty variant: run_research with a narrower except clause
RunResearchCatchesValueError(e) == e.cls = "ValueError"

\* run_research: except Exception as e
RunResearchCatches(e) == IsException(e)

\* faulty variant: the message without the prefix
ErrorStringBare(e) == Str(e)

\* f"Error: {str(e)}"
ErrorString(e) == <<"Error: ">> \o Str(e)

\* faulty variant: the except branch hands back the last output produced
RunResearchPartialValue(r) ==
    IF taskOutputs[r] # << >> THEN taskOutputs[r][Len(taskOutputs[r])].raw
    ELSE ErrorString(exc[r])

\* what run_research returns from its except branch
RunResearchExceptValue(r) == ErrorString(exc[r])

\* faulty variant: the outputs of all the tasks, joined
ResultRawAllOutputs(r) == JoinRaw(taskOutputs[r])

\* result.raw: the raw output of the last task kickoff ran
ResultRaw(r) == taskOutputs[r][Len(taskOutputs[r])].raw

\* --------------------------------------------------------- api.py: helpers
\* query_endpoint: except Exception as e
QueryEndpointCatches(e) == IsException(e)

\* faulty variant: an error string is answered as HTTP 500
QueryResponse500OnError(result) ==
    IF BeginsWith(result, <<"Error: ">>)
    THEN [code |-> 500, key |-> "detail", text |-> <<"Internal server error: ">> \o result]
    ELSE [code |-> 200, key |-> "result", text |-> result]

\* QueryResponse(result=result), answered with HTTP 200
QueryResponse(result) == [code |-> 200, key |-> "result", text |-> result]

\* HTTPException(status_code=500, detail=f"Internal server error: {str(e)}")
HTTPException500(e) ==
    [code |-> 500, key |-> "detail", text |-> <<"Internal server error: ">> \o Str(e)]

\* what the service is doing when GET /status comes in
ServicePhase ==
    IF \A r \in Requests : pc[r] = "idle" THEN "before"
    ELSE IF \E r \in Requests : pc[r] \in {"run_research", "kickoff", "task", "except"}
    THEN "inflight"
    ELSE IF \E r \in Requests : failedAt[r] # "none" THEN "afterfail"
    ELSE "after"

\* faulty variant: the answer reflects failed queries
StatusResponseByHealth ==
    IF \E r \in Requests : failedAt[r] # "none"
    THEN [code |-> 503, status |-> "degraded"]
    ELSE [code |-> 200, status |-> "ok"]

\* StatusResponse(status="ok"), answered with HTTP 200
StatusResponse == [code |-> 200, status |-> "ok"]

\* --------------------------------------------------------- app.py: helpers
DefaultUserMessage ==
    <<"An error occurred while contacting backend API. Please try again later.">>

\* call_research_api's except branch: the embedded JSON's error message, else
\* the last double-quoted piece of the message, else the default
UserMessage(e) ==
    IF e.json # << >> THEN e.json
    ELSE IF e.quoted # << >> /\ e.quoted[Len(e.quoted)] # << >>
    THEN e.quoted[Len(e.quoted)]
    ELSE DefaultUserMessage

\* -------------------------------------------------------------- actions
\* POST /query arrives: query_endpoint calls run_research(request.input)
PostQuery(r, q) ==
    /\ r \in Slots /\ pc[r] = "idle"
    /\ pc' = [pc EXCEPT ![r] = "run_research"]
    /\ query' = [query EXCEPT ![r] = q]
    /\ UNCHANGED <<concurrent, crewOf, taskIdx, taskOutputs, ctx, obs, toolCalls,
                   delegations, delegate, outVars, heapVars, histVars, statusLog>>

\* run_research: crew = create_research_crew(query) builds the tool, the LLM
\* client, three agents, three tasks and the crew
CreateResearchCrew(r) ==
    /\ pc[r] = "run_research"
    /\ FreshCrewId \in CrewIds
    /\ crews' = [crews EXCEPT ![FreshCrewId] = NewCrew(query[r])]
    /\ nextCrew' = nextCrew + 1
    /\ crewOf' = [crewOf EXCEPT ![r] = FreshCrewId]
    /\ taskIdx' = [taskIdx EXCEPT ![r] = 0]
    /\ taskOutputs' = [taskOutputs EXCEPT ![r] = << >>]
    /\ pc' = [pc EXCEPT ![r] = "kickoff"]
    /\ UNCHANGED <<concurrent, query, ctx, obs, toolCalls, delegations, delegate,
                   outVars, histVars, statusLog>>

\* the construction raises (a rejected configuration, a missing key)
CreateResearchCrewRaises(r, e) ==
    /\ pc[r] = "run_research"
    /\ exc' = [exc EXCEPT ![r] = e]
    /\ failedAt' = [failedAt EXCEPT ![r] = "construct"]
    /\ pc' = [pc EXCEPT ![r] = "except"]
    /\ UNCHANGED <<concurrent, runVars, ret, resp, shown, heapVars, started, finished,
                   handed, obsLog, searchLog, swallowedBy, statusLog>>

\* crew.kickoff(), sequential process: the next task of crew.tasks begins,
\* with its context
StartTask(r) ==
    /\ pc[r] = "kickoff" /\ taskIdx[r] < Len(CrewTasks)
    /\ LET task == CrewTasks[taskIdx[r] + 1]
           context == ContextFor(r, task)
       IN  /\ taskIdx' = [taskIdx EXCEPT ![r] = @ + 1]
           /\ ctx' = [ctx EXCEPT ![r] = context]
           /\ started' = [started EXCEPT ![r] = Append(@, Stage(task))]
           /\ handed' = [handed EXCEPT ![r] = Append(@, context)]
    /\ obs' = [obs EXCEPT ![r] = << >>]
    /\ delegate' = [delegate EXCEPT ![r] = "none"]
    /\ pc' = [pc EXCEPT ![r] = "task"]
    /\ UNCHANGED <<concurrent, query, crewOf, taskOutputs, toolCalls, delegations, outVars, heapVars, finished,
                   obsLog, failedAt, searchLog, swallowedBy, statusLog>>

\* the working agent calls LinkUpSearchTool._run and the provider answers
LinkUpSearchRun(r, response) ==
    /\ pc[r] = "task" /\ toolCalls[r] < MaxToolCalls
    /\ LinkUpSearch \in ActingTools(r)
    /\ toolCalls' = [toolCalls EXCEPT ![r] = @ + 1]
    /\ obs' = [obs EXCEPT ![r] = @ \o StrResponse(response)]
    /\ searchLog' = searchLog \cup
          {[req |-> r, call |-> toolCalls[r] + 1, stage |-> Stage(CurTask(r)),
            agent |-> ActingAgent(r), delegated |-> delegate[r] # "none", failed |-> FALSE]}
    /\ UNCHANGED <<concurrent, pc, query, crewOf, taskIdx, taskOutputs, ctx, delegations,
                   delegate, outVars, heapVars, started, finished, handed, obsLog,
                   failedAt, swallowedBy, statusLog>>

\* the working agent calls LinkUpSearchTool._run and the client or the provider
\* raises: the except branch returns the error string as the tool's result
LinkUpSearchRunFails(r, e) ==
    /\ pc[r] = "task" /\ toolCalls[r] < MaxToolCalls
    /\ LinkUpSearch \in ActingTools(r)
    /\ toolCalls' = [toolCalls EXCEPT ![r] = @ + 1]
    /\ searchLog' = searchLog \cup
          {[req |-> r, call |-> toolCalls[r] + 1, stage |-> Stage(CurTask(r)),
            agent |-> ActingAgent(r), delegated |-> delegate[r] # "none", failed |-> TRUE]}
    /\ IF ToolCatches(e)
       THEN /\ obs' = [obs EXCEPT ![r] = @ \o ToolErrorString(e)]
            /\ swallowedBy' = swallowedBy \cup {"LinkUpSearchTool._run"}
            /\ UNCHANGED <<pc, exc, failedAt>>
       ELSE /\ exc' = [exc EXCEPT ![r] = e]
            /\ failedAt' = [failedAt EXCEPT ![r] = Stage(CurTask(r))]
            /\ pc' = [pc EXCEPT ![r] = "except"]
            /\ UNCHANGED <<obs, swallowedBy>>
    /\ UNCHANGED <<concurrent, query, crewOf, taskIdx, taskOutputs, ctx, delegations,
                   delegate, ret, resp, shown, heapVars, started, finished, handed,
                   obsLog, statusLog>>

\* an agent that may delegate hands a piece of work to another agent of the crew
DelegateWork(r, coworker) ==
    /\ pc[r] = "task" /\ delegate[r] = "none"
    /\ delegations[r] < MaxDelegations
    /\ AllowDelegation(TaskAgent(CurTask(r)))
    /\ coworker \in Agents \ {TaskAgent(CurTask(r))}
    /\ delegate' = [delegate EXCEPT ![r] = coworker]
    /\ delegations' = [delegations EXCEPT ![r] = @ + 1]
    /\ UNCHANGED <<concurrent, pc, query, crewOf, taskIdx, taskOutputs, ctx, obs,
                   toolCalls, outVars, heapVars, histVars, statusLog>>

\* the coworker answers; its answer is an observation of the delegating agent
DelegateReturns(r) ==
    /\ pc[r] = "task" /\ delegate[r] # "none"
    /\ obs' = [obs EXCEPT ![r] = @ \o <<"answer of ", delegate[r]>>]
    /\ delegate' = [delegate EXCEPT ![r] = "none"]
    /\ UNCHANGED <<concurrent, pc, query, crewOf, taskIdx, taskOutputs, ctx, toolCalls,
                   delegations, outVars, heapVars, histVars, statusLog>>

\* the task's agent gives its final answer: the task's output is set
TaskCompletes(r) ==
    /\ pc[r] = "task" /\ delegate[r] = "none"
    /\ LET task == CurTask(r)
           out == [set |-> TRUE,
                   raw |-> LLMAnswer(TaskAgent(task),
                                     Description(task, crews[crewOf[r]].query),
                                     ctx[r], obs[r])]
       IN  /\ crews' = [crews EXCEPT ![crewOf[r]].output[task] = out]
           /\ taskOutputs' = [taskOutputs EXCEPT ![r] = Append(@, out)]
           /\ finished' = [finished EXCEPT ![r] = Append(@, Stage(task))]
    /\ obsLog' = [obsLog EXCEPT ![r] = Append(@, obs[r])]
    /\ pc' = [pc EXCEPT ![r] = "kickoff"]
    /\ UNCHANGED <<concurrent, query, crewOf, taskIdx, ctx, obs, toolCalls, delegations,
                   delegate, outVars, nextCrew, started, handed, failedAt, searchLog,
                   swallowedBy, statusLog>>

\* an LLM call of the running stage raises: kickoff raises
TaskRaises(r, e) ==
    /\ pc[r] = "task"
    /\ exc' = [exc EXCEPT ![r] = e]
    /\ failedAt' = [failedAt EXCEPT ![r] = Stage(CurTask(r))]
    /\ pc' = [pc EXCEPT ![r] = "except"]
    /\ UNCHANGED <<concurrent, runVars, ret, resp, shown, heapVars, started, finished,
                   handed, obsLog, searchLog, swallowedBy, statusLog>>

\* kickoff is through crew.tasks: run_research returns result.raw
RunResearchReturns(r) ==
    /\ pc[r] = "kickoff" /\ taskIdx[r] = Len(CrewTasks)
    /\ ret' = [ret EXCEPT ![r] = ResultRaw(r)]
    /\ pc' = [pc EXCEPT ![r] = "returned"]
    /\ UNCHANGED <<concurrent, runVars, exc, resp, shown, heapVars, histVars, statusLog>>

\* run_research's except branch: the exception becomes the returned string
RunResearchExcept(r) ==
    /\ pc[r] = "except"
    /\ IF RunResearchCatches(exc[r])
       THEN /\ ret' = [ret EXCEPT ![r] = RunResearchExceptValue(r)]
            /\ swallowedBy' = swallowedBy \cup {"run_research"}
            /\ pc' = [pc EXCEPT ![r] = "returned"]
       ELSE /\ pc' = [pc EXCEPT ![r] = "raised"]
            /\ UNCHANGED <<ret, swallowedBy>>
    /\ UNCHANGED <<concurrent, runVars, exc, resp, shown, heapVars, started, finished,
                   handed, obsLog, failedAt, searchLog, statusLog>>

\* query_endpoint answers: the result, or HTTP 500 when run_research raised
QueryEndpointResponds(r) ==
    /\ pc[r] \in {"returned", "raised"}
    /\ \/ pc[r] = "returned"
       \/ QueryEndpointCatches(exc[r])
    /\ resp' = [resp EXCEPT ![r] =
                  IF pc[r] = "returned" THEN QueryResponse(ret[r])
                  ELSE HTTPException500(exc[r])]
    /\ pc' = [pc EXCEPT ![r] = "responded"]
    /\ UNCHANGED <<concurrent, runVars, exc, ret, shown, heapVars, histVars, statusLog>>

\* call_research_api gets the response: the "result" of a 200, or, since
\* raise_for_status raises on a 500, the message of its except branch
CallResearchApiReturns(r) ==
    /\ pc[r] = "responded"
    /\ IF resp[r].code = 200
       THEN /\ shown' = [shown EXCEPT ![r] =
                           IF resp[r].key = "result" THEN resp[r].text
                           ELSE <<"No result returned from API.">>]
            /\ UNCHANGED swallowedBy
       ELSE /\ shown' = [shown EXCEPT ![r] = UserMessage(HTTPError(resp[r].code))]
            /\ swallowedBy' = swallowedBy \cup {"call_research_api"}
    /\ pc' = [pc EXCEPT ![r] = "shown"]
    /\ UNCHANGED <<concurrent, runVars, exc, ret, resp, heapVars, started, finished,
                   handed, obsLog, failedAt, searchLog, statusLog>>

\* call_research_api cannot reach the API: requests.post raises
CallResearchApiFails(r, e) ==
    /\ r \in Slots /\ pc[r] = "idle"
    /\ shown' = [shown EXCEPT ![r] = UserMessage(e)]
    /\ swallowedBy' = swallowedBy \cup {"call_research_api"}
    /\ pc' = [pc EXCEPT ![r] = "shown"]
    /\ UNCHANGED <<concurrent, runVars, exc, ret, resp, heapVars, started, finished,
                   handed, obsLog, failedAt, searchLog, statusLog>>

\* GET /status
Status ==
    /\ statusLog' = statusLog \cup
          {[code |-> StatusResponse.code, status |-> StatusResponse.status,
            phase |-> ServicePhase]}
    /\ UNCHANGED <<concurrent, pc, runVars, outVars, heapVars, histVars>>

Pipeline(r) ==
    \/ \E q \in Queries : PostQuery(r, q)
    \/ CreateResearchCrew(r)
    \/ \E e \in ConstructionErrors : CreateResearchCrewRaises(r, e)
    \/ StartTask(r)
    \/ \E response \in SearchResponses : LinkUpSearchRun(r, response)
    \/ \E e \in ProviderErrors : LinkUpSearchRunFails(r, e)
    \/ \E coworker \in Agents : DelegateWork(r, coworker)
    \/ DelegateReturns(r)
    \/ TaskCompletes(r)
    \/ \E e \in LLMErrors : TaskRaises(r, e)
    \/ RunResearchReturns(r)
    \/ RunResearchExcept(r)
    \/ QueryEndpointResponds(r)
    \/ CallResearchApiReturns(r)

Next ==
    \/ \E r \in Requests : Pipeline(r)
    \/ \E r \in Requests, e \in TransportErrors : CallResearchApiFails(r, e)
    \/ Status

Spec == Init /\ [][Next]_vars

\* Several requests served at once, their steps interleaved in any order.  The
\* steps kept are those that read or write the crew objects and the values
\* that travel back to the caller; tool calls and delegated work only append
\* to the working agent's own observations.
PipelineConc(r) ==
    \/ \E q \in Queries \ { << >> } : PostQuery(r, q)
    \/ CreateResearchCrew(r)
    \/ \E e \in ConstructionErrors : CreateResearchCrewRaises(r, e)
    \/ StartTask(r)
    \/ TaskCompletes(r)
    \/ \E e \in LLMErrors : TaskRaises(r, e)
    \/ RunResearchReturns(r)
    \/ RunResearchExcept(r)

NextConc == \E r \in Requests : PipelineConc(r)

SpecConc == InitConc /\ [][NextConc]_vars

\* ------------------------------------------------------------ properties
StageOrder == <<"SEARCH", "ANALYZE", "WRITE">>
StageTasks == <<"search_task", "analysis_task", "writing_task">>
IsPrefix(s, t) == Len(s) <= Len(t) /\ SubSeq(t, 1, Len(s)) = s
ErrorPrefix == <<"Error: ">>

\* the report: the output of the completed writing task of the request's crew
Report(r) == crews[crewOf[r]].output["writing_task"].raw

\* C1: the stages of a run begin in the order SEARCH, ANALYZE, WRITE, each at
\* most once; a stage begins only when every stage before it has completed and
\* its output is set on the task object; at most one stage is running.
C1_FixedStageOrder ==
    \A r \in Requests :
        /\ IsPrefix(started[r], StageOrder)
        /\ IsPrefix(finished[r], started[r])
        /\ Len(started[r]) - Len(finished[r]) \in {0, 1}
        /\ (pc[r] = "task") <=> (Len(started[r]) = Len(finished[r]) + 1 /\ failedAt[r] = "none")
        /\ \A i \in 2..Len(started[r]) :
              /\ finished[r][i - 1] = StageOrder[i - 1]
              /\ crews[crewOf[r]].output[StageTasks[i - 1]].set

C1_Witness == \E r \in Requests : finished[r] = StageOrder /\ pc[r] = "returned"

\* C2: run_research never raises: no request is ever left with an exception
\* past run_research, and what run_research returned is a string that begins
\* with "Error: " or is the report of the completed pipeline.
C2_RunResearchNeverRaises ==
    \A r \in Requests :
        /\ pc[r] # "raised"
        /\ resp[r].key # "detail"
        /\ pc[r] = "returned" =>
              \/ BeginsWith(ret[r], ErrorPrefix)
              \/ finished[r] = StageOrder /\ ret[r] = Report(r)
        /\ pc[r] = "returned" /\ failedAt[r] # "none" => BeginsWith(ret[r], ErrorPrefix)

C2_Witness ==
    \E r \in Requests :
        pc[r] = "returned" /\ query[r] = << >> /\ failedAt[r] = "WRITE"

\* a call of LinkUpSearchTool._run by request r fails in this step
SearchFailsNow(r) == \E c \in searchLog' \ searchLog : c.req = r /\ c.failed

\* C3: a provider failure inside LinkUpSearchTool._run does not abort the
\* stage: in the step of the failing call the request stays in the same stage,
\* no exception is in flight, and the tool's result, the agent's new
\* observation, is a text beginning "Error occurred while searching: ".
C3_SearchFailureNonfatal ==
    [][\A r \in Requests :
          SearchFailsNow(r) =>
              /\ pc'[r] = "task" /\ taskIdx'[r] = taskIdx[r]
              /\ exc'[r] = exc[r] /\ failedAt'[r] = failedAt[r]
              /\ Len(obs'[r]) > Len(obs[r])
              /\ BeginsWith(SubSeq(obs'[r], Len(obs[r]) + 1, Len(obs'[r])),
                            <<"Error occurred while searching: ">>)]_vars

\* a search failed in the SEARCH stage and the run still went through ANALYZE
\* and WRITE and returned the report
C3_Witness ==
    \E r \in Requests :
        /\ \E c \in searchLog : c.req = r /\ c.failed /\ c.stage = "SEARCH"
        /\ pc[r] = "returned" /\ failedAt[r] = "none"
        /\ finished[r] = StageOrder /\ ret[r] = Report(r)

\* C4: when construction or a stage raised, run_research's value begins with
\* "Error: " and contains the output of no stage that had completed; and what
\* the user is shown for an answered request is that value: the output of the
\* completed WRITE stage or an error string, never an earlier stage's output.
C4_NoPartialReport ==
    \A r \in Requests :
        /\ (pc[r] \in {"returned", "responded", "shown"} /\ failedAt[r] # "none") =>
              /\ BeginsWith(ret[r], ErrorPrefix)
              /\ \A i \in 1..Len(taskOutputs[r]) : ~Contains(ret[r], taskOutputs[r][i].raw)
        /\ (pc[r] = "shown" /\ resp[r].code # 0) =>
              /\ shown[r] = ret[r]
              /\ \/ BeginsWith(shown[r], ErrorPrefix)
                 \/ Len(taskOutputs[r]) = Len(StageOrder) /\ shown[r] = taskOutputs[r][3].raw
              /\ \A i \in 1..Len(taskOutputs[r]) :
                    i < Len(StageOrder) => shown[r] # taskOutputs[r][i].raw

C4_Witness ==
    \E r \in Requests :
        pc[r] = "shown" /\ failedAt[r] = "WRITE" /\ Len(taskOutputs[r]) = 2

\* C5 as stated: run_research is the only function on a query's path that
\* turns an exception into a returned string, so once run_research has
\* returned, every conversion so far was its own.
C5_OnlyRunResearchSwallows ==
    \A r \in Requests : pc[r] = "returned" => swallowedBy \subseteq {"run_research"}

\* C5, amended: every exception that escapes crew construction or a stage
\* reaches run_research, which returns "Error: " followed by its message, and
\* none goes past run_research; an exception of the search provider does not
\* reach it: LinkUpSearchTool._run turns it into a returned string itself (and
\* call_research_api does so with the exceptions of the HTTP call).  No other
\* function converts: query_endpoint would answer HTTP 500 instead.
C5_BoundaryAndAdapterSwallow ==
    /\ swallowedBy \subseteq {"run_research", "LinkUpSearchTool._run", "call_research_api"}
    /\ \A r \in Requests :
          /\ pc[r] # "raised"
          /\ pc[r] \in {"task", "kickoff"} => failedAt[r] = "none" /\ exc[r] = NoException
          /\ failedAt[r] # "none" /\ pc[r] # "except" =>
                /\ "run_research" \in swallowedBy
                /\ ret[r] = ErrorPrefix \o exc[r].msg
    /\ \A c \in searchLog :
          c.failed =>
              /\ "LinkUpSearchTool._run" \in swallowedBy
              /\ failedAt[c.req] # "none" => exc[c.req] \in ConstructionErrors \cup LLMErrors

\* both conversions happened for one query: a failed search was absorbed by
\* the tool, a later stage raised and run_research returned the error string
C5_Witness ==
    \E r \in Requests :
        /\ pc[r] = "returned" /\ failedAt[r] = "ANALYZE"
        /\ \E c \in searchLog : c.req = r /\ c.failed
        /\ swallowedBy = {"run_research", "LinkUpSearchTool._run"}

\* C6 as stated: a query whose processing succeeds is answered 200 with the
\* result, one whose processing fails internally is answered HTTP 500 with
\* the detail "Internal server error: <message>".
C6_FailureAnswers500 ==
    \A r \in Requests :
        resp[r].code # 0 =>
            IF failedAt[r] = "none"
            THEN resp[r] = [code |-> 200, key |-> "result", text |-> ret[r]]
            ELSE /\ resp[r].code = 500 /\ resp[r].key = "detail"
                 /\ BeginsWith(resp[r].text, <<"Internal server error: ">>)

\* C6, amended: query_endpoint answers 200 with {"result": <what run_research
\* returned>} in every case: the report when the processing succeeds, and the
\* string "Error: <message>" when construction or a stage fails.  No such
\* failure is answered with HTTP 500.
C6_AlwaysAnswers200 ==
    \A r \in Requests :
        resp[r].code # 0 =>
            /\ resp[r] = [code |-> 200, key |-> "result", text |-> ret[r]]
            /\ failedAt[r] = "none" => finished[r] = StageOrder /\ resp[r].text = Report(r)
            /\ failedAt[r] # "none" => resp[r].text = ErrorPrefix \o exc[r].msg

C6_Witness ==
    \E r \in Requests :
        resp[r].code = 200 /\ failedAt[r] = "ANALYZE" /\ pc[r] = "responded"

\* C8: every answer GET /status has given is 200 with {"status": "ok"},
\* whatever the service was doing.
C8_StatusAlwaysOk == \A s \in statusLog : s.code = 200 /\ s.status = "ok"

\* GET /status was answered before any query, with a query in flight, and
\* after a query had failed
C8_Witness == {"before", "inflight", "afterfail"} \subseteq { s.phase : s \in statusLog }

\* C9: the context graph is the chain search_task <- analysis_task <-
\* writing_task, and what a stage is handed when it begins is exactly the raw
\* output of the stage completed just before it (nothing for SEARCH).
C9_ContextChain ==
    /\ ~ContextSpecified("search_task") /\ TaskContext("search_task") = << >>
    /\ TaskContext("analysis_task") = <<"search_task">>
    /\ TaskContext("writing_task") = <<"analysis_task">>
    /\ \A r \in Requests :
          \A i \in 1..Len(handed[r]) :
              /\ i = 1 => handed[r][i] = << >>
              /\ i > 1 => handed[r][i] = taskOutputs[r][i - 1].raw
              /\ started[r][i] = "ANALYZE" =>
                    handed[r][i] = crews[crewOf[r]].output["search_task"].raw
              /\ started[r][i] = "WRITE" =>
                    /\ handed[r][i] = crews[crewOf[r]].output["analysis_task"].raw
                    /\ handed[r][i] # crews[crewOf[r]].output["search_task"].raw

C9_Witness == \E r \in Requests : Len(handed[r]) = 3 /\ pc[r] = "task"

\* C10 as stated: no call of LinkUpSearchTool._run is made while the ANALYZE
\* or the WRITE stage is executing.
C10_SearchOnlyInSearchStage == \A c \in searchLog : c.stage = "SEARCH"

\* C10, amended: every call of LinkUpSearchTool._run is made by the Web
\* Searcher; none is made during WRITE; during ANALYZE one is made only
\* within work the Research Analyst has delegated to the Web Searcher.
C10_SearchOnlyByWebSearcher ==
    \A c \in searchLog :
        /\ c.agent = WebSearcher
        /\ c.stage # "WRITE"
        /\ c.stage = "ANALYZE" => c.delegated
        /\ c.stage = "SEARCH" => ~c.delegated

C10_Witness ==
    \E c \in searchLog : c.stage = "ANALYZE" /\ c.delegated /\ c.agent = WebSearcher

\* What the i-th stage of request r is handed and produces when r runs alone:
\* computed from r's own query and r's own observations only.
RECURSIVE AloneOutput(_, _)
AloneContext(r, i) == IF i = 1 THEN << >> ELSE AloneOutput(r, i - 1)
AloneOutput(r, i) ==
    LLMAnswer(TaskAgent(StageTasks[i]), Description(StageTasks[i], query[r]),
              AloneContext(r, i), obsLog[r][i])

\* C7: requests served at once hold distinct crews, each built for its own
\* query; under every interleaving each stage of a request is handed, and
\* produces, what it would running alone, and a run that completes returns
\* the report it would return running alone.
C7_NoInterference ==
    /\ \A r1, r2 \in Requests :
          r1 # r2 /\ crewOf[r1] # 0 /\ crewOf[r2] # 0 => crewOf[r1] # crewOf[r2]
    /\ \A r \in Requests :
          /\ crewOf[r] # 0 => crews[crewOf[r]].built /\ crews[crewOf[r]].query = query[r]
          /\ \A i \in 1..Len(handed[r]) : handed[r][i] = AloneContext(r, i)
          /\ \A i \in 1..Len(taskOutputs[r]) :
                /\ taskOutputs[r][i].raw = AloneOutput(r, i)
                /\ crews[crewOf[r]].output[StageTasks[i]] = taskOutputs[r][i]
          /\ pc[r] = "returned" /\ failedAt[r] = "none" => ret[r] = AloneOutput(r, 3)

\* two requests with different queries in flight at once, one in its WRITE
\* stage and the other in its ANALYZE stage
C7_Witness ==
    \E r1, r2 \in Requests :
        /\ query[r1] # query[r2]
        /\ pc[r1] = "task" /\ started[r1] = StageOrder
        /\ pc[r2] = "task" /\ started[r2] = <<"SEARCH", "ANALYZE">>

\* C11: when the three stages have completed and nothing raised, what
\* run_research returns is the raw output of the writing task as the Technical
\* Writer gave it: not the output of SEARCH or ANALYZE, not the outputs joined,
\* and with no "Error: " prefix put before it.
C11_ReturnsWriteOutput ==
    \A r \in Requests :
        (pc[r] \in {"returned", "responded", "shown"} /\ failedAt[r] = "none"
            /\ crewOf[r] # 0) =>
            /\ finished[r] = StageOrder
            /\ ret[r] = crews[crewOf[r]].output["writing_task"].raw
            /\ ret[r] = LLMAnswer(TechnicalWriter, Description("writing_task", query[r]),
                                  handed[r][3], obsLog[r][3])
            /\ ret[r] # crews[crewOf[r]].output["search_task"].raw
            /\ ret[r] # crews[crewOf[r]].output["analysis_task"].raw
            /\ ret[r] # JoinRaw(taskOutputs[r])
            /\ ~BeginsWith(ret[r], ErrorPrefix)
            /\ Head(ret[r]) = TechnicalWriter

\* a run with a search made in SEARCH, all three stages completed, returned
C11_Witness ==
    \E r \in Requests :
        /\ pc[r] = "returned" /\ failedAt[r] = "none" /\ query[r] = <<"q1">>
        /\ Len(taskOutputs[r]) = 3 /\ obsLog[r][1] # << >>

\* ------------------------------------------------------------- liveness
\* one step of a call of run_research, from construction to its return
RunResearchStep(r) ==
    \/ CreateResearchCrew(r)
    \/ \E e \in ConstructionErrors : CreateResearchCrewRaises(r, e)
    \/ StartTask(r)
    \/ \E response \in SearchResponses : LinkUpSearchRun(r, response)
    \/ \E e \in ProviderErrors : LinkUpSearchRunFails(r, e)
    \/ \E coworker \in Agents : DelegateWork(r, coworker)
    \/ DelegateReturns(r)
    \/ TaskCompletes(r)
    \/ \E e \in LLMErrors : TaskRaises(r, e)
    \/ RunResearchReturns(r)
    \/ RunResearchExcept(r)

NextRun == \E r \in Requests : Pipeline(r)

\* The thread running run_research goes on to its next step, and every call
\* of the LLM or of the search provider comes back (returning or raising):
\* a call that can take a step eventually takes one.  Which step an agent
\* takes (another search, a delegation, its final answer) is the LLM's
\* choice; the number of tool calls and delegations of a run is capped.
SpecFair == Init /\ [][NextRun]_vars /\ \A r \in Requests : WF_vars(RunResearchStep(r))

InFlight(r) == pc[r] \in {"run_research", "kickoff", "task", "except"}

\* C12: a call of run_research in flight is never cancelled or timed out: its
\* only way out is its return, with the query and the crew it works on kept;
\* and under fairness every call in flight eventually returns, the report or
\* a string beginning "Error: ".
C12_RunEventuallyReturns ==
    /\ [][\A r \in Requests :
            InFlight(r) =>
                /\ pc'[r] \in {"run_research", "kickoff", "task", "except", "returned"}
                /\ query'[r] = query[r]
                /\ crewOf[r] # 0 => crewOf'[r] = crewOf[r]
                /\ Len(started'[r]) >= Len(started[r])]_vars
    /\ \A r \in Requests :
          InFlight(r) ~>
              (pc[r] = "returned"
                  /\ \/ BeginsWith(ret[r], ErrorPrefix)
                     \/ failedAt[r] = "none" /\ ret[r] = Report(r))

\* the Web Searcher searched again after an error result, and the call returned
C12_Witness ==
    \E r \in Requests :
        /\ pc[r] = "returned"
        /\ \E c1, c2 \in searchLog :
              /\ c1.req = r /\ c2.req = r /\ c1.call < c2.call
              /\ c1.stage = "SEARCH" /\ c2.stage = "SEARCH"
              /\ c1.agent = WebSearcher /\ c2.agent = WebSearcher
              /\ c1.failed

====
